---- MODULE Spec2Model ----
(***************************************************************************)
(* The ToDo application of src/src/App.tsx: the React component App, its   *)
(* three token operations (handleCreateSubmit, handleCompleteSubmit, the   *)
(* task-loading effect) and the user-interface events that start them.     *)
(*                                                                         *)
(* An async handler is modelled as a sequence of steps, one per await:     *)
(* everything between two awaits is one atomic action.  The collaborators  *)
(* (encrypt, decrypt, pushdrop, createAction, getTransactionOutputs) are   *)
(* the environment: each may succeed or throw.  The ledger keeps the       *)
(* basket 'todo tokens' of unspent outputs.                                *)
(*                                                                         *)
(* A JavaScript object is a record; a property the object does not have    *)
(* is a field the record does not have.  Object identity (===) is the      *)
(* field id, given to every Task object when it is built.  A value that    *)
(* may be null or undefined is a sequence of length 0 or 1.                *)
(***************************************************************************)
EXTENDS Integers, Sequences, FiniteSets, TLC

\* ------------------------------------------------------------------ bounds
\* ledger transactions that create a token during one session
MaxTx == 1
\* outputs already in the basket when the component mounts
MaxInitBasket == 2

\* characters of the longest description a token in the basket carries
MaxTaskLen == 120

\* completions that run side by side when no dialog keeps them apart
MaxCompletions == 2
\* another load starts only while the next object identity is at most this
MaxId == 3

\* --------------------------------------------------------------- constants
TODO_PROTO_ADDR == "1ToDoDtKreEzbHYKFjmoBuduFmSXXUGZG"
ProtocolID == "todo list"
KeyID == "1"
BasketName == "todo tokens"
MinAmount == 500
DefaultAmount == 1000
\* the longest description a ledger action takes
DescriptionLimit == 128
\* Number.NaN, kept apart from every amount the model enters
NaN == 0 - 1

\* the texts and amounts the user can enter in the creation dialog
Descriptions == {"", "Buy milk"}
Amounts == {NaN, 0, 499, 500, 1000}

\* ------------------------------------------------------------------ toasts
NoToast == "-"
ToastNoTask == "Enter a task to complete!"
ToastNoAmount == "Enter an amount for the new task!"
ToastLowAmount == "The amount must be more than 500 satoshis!"
ToastCreated == "Task successfully created!"
ToastCompleted == "Congrats! Task complete"
ToastCompleteError(message) == "Error completing task: " \o message
ErrNoTask == "No task selected."
ErrIncomplete == "Task data is incomplete or undefined."
\* messages of the errors the collaborators and the runtime throw
ToastEncryptError == "encrypt failed"
ToastScriptError == "pushdrop.create failed"
ToastLedgerError == "createAction failed"
ToastRedeemError == "pushdrop.redeem failed"
ToastTypeError == "Cannot read properties of undefined (reading 'txid')"
ToastLoadError == "Failed to load ToDo tasks! Error: (e as Error).message"
UnableToDecrypt == "[error] Unable to decrypt task!"

ERR_NO_METANET_IDENTITY == "ERR_NO_METANET_IDENTITY"
ERR_OTHER == "ERR_OTHER"
QueryErrorCodes == {ERR_NO_METANET_IDENTITY, ERR_OTHER}

\* ------------------------------------------------------------ collaborators
\* encrypt of @babbage/sdk-ts: the ciphertext is bound to the protocol and key
Encrypt(plaintext, protocolID, keyID) ==
  [protocolID |-> protocolID, keyID |-> keyID, sealed |-> plaintext]

\* decrypt of @babbage/sdk-ts: <<plaintext>>, or <<>> when it throws
Decrypt(ciphertext, protocolID, keyID) ==
  IF ciphertext.protocolID = protocolID /\ ciphertext.keyID = keyID
    THEN <<ciphertext.sealed>>
    ELSE <<>>

\* a field of a decoded script is the hex string of its bytes
ToHex(bytes) == [hex |-> bytes]

\* Buffer.from(s, 'hex')
BufferFromHex(s) == s.hex

\* pushdrop.create: a locking script carrying the fields
PushdropCreate(fields, protocolID, keyID) ==
  [pushdrop |-> TRUE, fields |-> fields, protocolID |-> protocolID, keyID |-> keyID]

\* pushdrop.decode: <<the fields, as hex strings>>, or <<>> when it throws
PushdropDecode(script) ==
  IF script.pushdrop
    THEN <<[i \in 1..Len(script.fields) |-> ToHex(script.fields[i])]>>
    ELSE <<>>

\* "tx1", "tx2", ...: the identifier of the n-th transaction of the session
TxId(n) == "tx" \o ToString(n)

\* --------------------------------------------------------------- JS helpers
\* a < b on JavaScript numbers: false when either side is NaN
Lt(a, b) == a # NaN /\ b # NaN /\ a < b

IsNaN(a) == a = NaN

RECURSIVE Reverse(_)
Reverse(s) == IF s = <<>> THEN <<>> ELSE Append(Reverse(Tail(s)), Head(s))

\* x.token !== undefined
HasToken(x) == "token" \in DOMAIN x

\* ------------------------------------------------------------------- state
VARIABLES
  createOpen,       \* useState: the creation dialog is open
  createTask,       \* useState: the text typed in the creation dialog
  createAmount,     \* useState: the amount typed in the creation dialog
  createLoading,    \* useState: a creation is in flight
  tasksLoading,     \* useState: the initial load is in flight
  tasks,            \* useState: the Task collection, newest first
  completeOpen,     \* useState: the completion dialog is open
  selectedTask,     \* useState: <<>> (null) or <<the Task the dialog is about>>
  completeLoading,  \* useState: a completion is in flight
  cr,               \* the running handleCreateSubmit: its position and locals
  co,               \* the running handleCompleteSubmit: its position and locals
  ld,               \* the task-loading effect: its position and locals
  basket,           \* the ledger: unspent outputs of the basket, oldest first
  ntx,              \* the ledger: token-creating transactions committed so far
  nextId,           \* identity of the next Task object to be built
  toast             \* the notification the last step showed (NoToast if none)

vars == <<createOpen, createTask, createAmount, createLoading, tasksLoading, tasks,
          completeOpen, selectedTask, completeLoading, cr, co, ld, basket, ntx,
          nextId, toast>>

uiCreate == <<createOpen, createTask, createAmount, createLoading>>
uiComplete == <<completeOpen, selectedTask, completeLoading>>
ledger == <<basket, ntx>>

CrIdle == [pc |-> "idle"]
CoIdle == [pc |-> "idle"]

\* ------------------------------------------------- handleCreateSubmit, pure
\* CreateRejection without the isNaN check
CreateRejectionNoNaN(task, amount) ==
  IF task = "" THEN ToastNoTask
  ELSE IF amount = 0 THEN ToastNoAmount
  ELSE IF Lt(amount, MinAmount) THEN ToastLowAmount
  ELSE NoToast

\* the checks of handleCreateSubmit: the error shown, or NoToast when the
\* input passes
CreateRejection(task, amount) ==
  IF task = "" THEN ToastNoTask
  ELSE IF amount = 0 \/ IsNaN(amount) THEN ToastNoAmount
  ELSE IF Lt(amount, MinAmount) THEN ToastLowAmount
  ELSE NoToast

\* EncryptTask under a key the load does not decrypt with
EncryptTaskOtherKey(task) == Encrypt(task, ProtocolID, "2")

\* the encrypt call of handleCreateSubmit: the description, sealed under
\* protocol 'todo list' and key '1'
EncryptTask(task) == Encrypt(task, ProtocolID, KeyID)

\* the fields of the token: the protocol address, then the ciphertext
TokenFields(encryptedTask) == <<TODO_PROTO_ADDR, encryptedTask>>

\* newToDoToken.txid ?? ''
TxidOrEmpty(result) == IF result.txid = <<>> THEN "" ELSE result.txid[1]

\* the Task object handleCreateSubmit builds from its inputs and the result
NewTask(id, task, amount, script, result) ==
  [id |-> id,
   task |-> task,
   sats |-> amount,
   token |-> [lockingScript |-> script, txid |-> TxidOrEmpty(result), outputIndex |-> 0]]

\* PrependTask with the new Task put last
AppendTask(new, originalTasks) == originalTasks \o <<new>>

\* setTasks(originalTasks => [new, ...originalTasks])
PrependTask(new, originalTasks) == <<new>> \o originalTasks

\* ----------------------------------------------- handleCompleteSubmit, pure
\* evaluating selectedTask?.token.txid throws a TypeError when a Task is
\* selected that has no token
RedeemArgsThrow(sel) == sel # <<>> /\ ~HasToken(sel[1])

\* CompleteRejection without the check of the txid
CompleteRejectionNoTxid(sel) ==
  IF sel = <<>> THEN ErrNoTask
  ELSE IF "outputIndex" \notin DOMAIN sel[1].token THEN ErrIncomplete
  ELSE NoToast

\* the checks made after pushdrop.redeem: the message of the error thrown, or
\* NoToast when the selected Task passes
CompleteRejection(sel) ==
  IF sel = <<>> THEN ErrNoTask
  ELSE IF sel[1].token.txid = "" \/ "outputIndex" \notin DOMAIN sel[1].token
    THEN ErrIncomplete
  ELSE NoToast

\* the template of the description of a completing action
DescriptionPrefix == "Complete a TODO task: \""
DescriptionSuffix == "\""

\* selectedTask?.task in a template literal
TaskText(sel) == IF sel = <<>> THEN "undefined" ELSE sel[1].task

\* CompletionDescription without the cut
CompletionDescriptionUncut(sel) ==
  DescriptionPrefix \o TaskText(sel) \o DescriptionSuffix

\* the description of the completing action: the template, cut to its first
\* 128 characters when it is longer
CompletionDescription(sel) ==
  LET description == DescriptionPrefix \o TaskText(sel) \o DescriptionSuffix
  IN IF Len(description) > DescriptionLimit
       THEN SubSeq(description, 1, DescriptionLimit)
       ELSE description

\* FindIndex with a match by description, not by identity
FindIndexByValue(oldTasks, sel) ==
  LET hits == {i \in 1..Len(oldTasks) : oldTasks[i].task = sel.task}
  IN IF hits = {} THEN 0 ELSE CHOOSE i \in hits : \A j \in hits : i <= j

\* oldTasks.findIndex(x => x === selectedTask), 1-based; 0 when there is none
FindIndex(oldTasks, sel) ==
  LET hits == {i \in 1..Len(oldTasks) : oldTasks[i].id = sel.id}
  IN IF hits = {} THEN 0 ELSE CHOOSE i \in hits : \A j \in hits : i <= j

\* oldTasks.splice(index, 1)
Splice(oldTasks, index) ==
  [j \in 1..(Len(oldTasks) - 1) |-> IF j < index THEN oldTasks[j] ELSE oldTasks[j + 1]]

\* RemoveTask that leaves the collection as it is
RemoveTaskNone(oldTasks, sel) == oldTasks

\* setTasks(oldTasks => ...) of handleCompleteSubmit
RemoveTask(oldTasks, sel) ==
  LET index == FindIndex(oldTasks, sel)
  IN IF index > 0 THEN Splice(oldTasks, index) ELSE oldTasks

\* the output a completion spends is in the basket, unspent
Spendable(b, token) ==
  \E i \in 1..Len(b) : b[i].txid = token.txid /\ b[i].vout = token.outputIndex

\* the basket once the output of token is spent
Spend(b, token) ==
  SelectSeq(b, LAMBDA o : ~(o.txid = token.txid /\ o.vout = token.outputIndex))

\* -------------------------------------------------------- load effect, pure
\* the placeholder built in the catch of the map callback: the output itself,
\* with a task property
Placeholder(id, o) ==
  [id |-> id, txid |-> o.txid, vout |-> o.vout, amount |-> o.amount,
   outputScript |-> o.outputScript, task |-> UnableToDecrypt]

\* the map callback of the load effect on one output of the basket
DecodeTask(id, o) ==
  LET decodedTask == PushdropDecode(o.outputScript)
  IN IF decodedTask = <<>> THEN Placeholder(id, o)
     ELSE IF Len(decodedTask[1]) < 2 THEN Placeholder(id, o)
     ELSE LET decryptedTask ==
                Decrypt(BufferFromHex(decodedTask[1][2]), ProtocolID, KeyID)
          IN IF decryptedTask = <<>> THEN Placeholder(id, o)
             ELSE [id |-> id,
                   token |-> [lockingScript |-> o.outputScript,
                              txid |-> o.txid,
                              outputIndex |-> o.vout],
                   sats |-> o.amount,
                   task |-> decryptedTask[1]]

\* DecodeTask without the try/catch around one output: <<the Task>>, or <<>>
\* when decoding or decrypting throws
DecodeTaskOrThrow(id, o) ==
  LET decodedTask == PushdropDecode(o.outputScript)
  IN IF decodedTask = <<>> \/ Len(decodedTask[1]) < 2 THEN <<>>
     ELSE LET decryptedTask ==
                Decrypt(BufferFromHex(decodedTask[1][2]), ProtocolID, KeyID)
          IN IF decryptedTask = <<>> THEN <<>>
             ELSE <<[id |-> id,
                     token |-> [lockingScript |-> o.outputScript,
                                txid |-> o.txid,
                                outputIndex |-> o.vout],
                     sats |-> o.amount,
                     task |-> decryptedTask[1]]>>

\* tasksFromBasket.map(...): the i-th output becomes the i-th new object
DecryptedTasks(outputs, firstId) ==
  [i \in 1..Len(outputs) |-> DecodeTask(firstId + i - 1, outputs[i])]

\* LoadedTasks without the reversal
LoadedTasksUnreversed(outputs, firstId) == DecryptedTasks(outputs, firstId)

\* LoadedTasks where one failing output fails the whole Promise.all, so that
\* the collection stays as it was at the mount: empty
LoadedTasksAllOrNothing(outputs, firstId) ==
  IF \E i \in 1..Len(outputs) : DecodeTaskOrThrow(firstId + i - 1, outputs[i]) = <<>>
    THEN <<>>
    ELSE Reverse([i \in 1..Len(outputs) |-> DecodeTaskOrThrow(firstId + i - 1, outputs[i])[1]])

\* decryptedTasks.reverse()
LoadedTasks(outputs, firstId) == Reverse(DecryptedTasks(outputs, firstId))

\* ---------------------------------------------------------- initial ledger
\* scripts of outputs left in the basket by earlier sessions: two tokens of
\* this protocol, a token sealed under another key, and a script that is no
\* pushdrop script
OldScripts ==
  { PushdropCreate(<<TODO_PROTO_ADDR, Encrypt("Buy milk", ProtocolID, KeyID)>>,
                   ProtocolID, KeyID),
    PushdropCreate(<<TODO_PROTO_ADDR, Encrypt("Pay rent", ProtocolID, KeyID)>>,
                   ProtocolID, KeyID),
    PushdropCreate(<<TODO_PROTO_ADDR, Encrypt("Pay rent", ProtocolID, "2")>>,
                   ProtocolID, "2"),
    [pushdrop |-> FALSE, fields |-> <<>>, protocolID |-> "", keyID |-> ""] }

\* the i-th old output: its own transaction, output index and amount
OldOutput(i, script) ==
  [txid |-> "old" \o ToString(i), vout |-> i - 1, amount |-> 500 * i,
   outputScript |-> script]

OldBaskets ==
  UNION { { [i \in 1..n |-> OldOutput(i, f[i])] : f \in [1..n -> OldScripts] }
          : n \in 0..MaxInitBasket }

Init ==
  /\ createOpen = FALSE
  /\ createTask = ""
  /\ createAmount = DefaultAmount
  /\ createLoading = FALSE
  /\ tasksLoading = TRUE
  /\ tasks = <<>>
  /\ completeOpen = FALSE
  /\ selectedTask = <<>>
  /\ completeLoading = FALSE
  /\ cr = CrIdle
  /\ co = CoIdle
  /\ ld = [pc |-> "query"]
  /\ basket \in OldBaskets
  /\ ntx = 0
  /\ nextId = 1
  /\ toast = NoToast

\* ------------------------------------------------------- user-interface events
\* a Dialog is modal: while one is open the page under it takes no click
NoDialog == ~createOpen /\ ~completeOpen

\* the two "add" buttons: the floating one is rendered when there is a task,
\* the one of the empty list when the load has ended with no task
OpenCreate ==
  /\ Len(tasks) >= 1 \/ (~tasksLoading /\ Len(tasks) = 0)
  /\ NoDialog
  /\ createOpen' = TRUE
  /\ toast' = NoToast
  /\ UNCHANGED <<createTask, createAmount, createLoading, tasksLoading, tasks,
                 uiComplete, cr, co, ld, ledger, nextId>>

\* Cancel or onClose of the creation dialog
CloseCreate ==
  /\ createOpen
  /\ createOpen' = FALSE
  /\ toast' = NoToast
  /\ UNCHANGED <<createTask, createAmount, createLoading, tasksLoading, tasks,
                 uiComplete, cr, co, ld, ledger, nextId>>

\* onChange of the 'Task to complete' field
TypeTask(d) ==
  /\ createOpen
  /\ createTask # d
  /\ createTask' = d
  /\ toast' = NoToast
  /\ UNCHANGED <<createOpen, createAmount, createLoading, tasksLoading, tasks,
                 uiComplete, cr, co, ld, ledger, nextId>>

\* onChange of the 'Completion amount' field
TypeAmount(a) ==
  /\ createOpen
  /\ createAmount # a
  /\ createAmount' = a
  /\ toast' = NoToast
  /\ UNCHANGED <<createOpen, createTask, createLoading, tasksLoading, tasks,
                 uiComplete, cr, co, ld, ledger, nextId>>

\* openCompleteModal(task): a click on an item of the list, which is rendered
\* once the load has ended
OpenCompleteModal(i) ==
  /\ ~tasksLoading
  /\ NoDialog
  /\ i \in 1..Len(tasks)
  /\ selectedTask' = <<tasks[i]>>
  /\ completeOpen' = TRUE
  /\ toast' = NoToast
  /\ UNCHANGED <<uiCreate, tasksLoading, tasks, completeLoading, cr, co, ld,
                 ledger, nextId>>

\* Cancel or onClose of the completion dialog
CloseComplete ==
  /\ completeOpen
  /\ completeOpen' = FALSE
  /\ toast' = NoToast
  /\ UNCHANGED <<uiCreate, tasksLoading, tasks, selectedTask, completeLoading,
                 cr, co, ld, ledger, nextId>>

\* ---------------------------------------------------------- handleCreateSubmit
\* CreateCatch that also resets the fields of the dialog
CreateCatchResets(message) ==
  /\ toast' = message
  /\ createLoading' = FALSE
  /\ cr' = CrIdle
  /\ createTask' = ""
  /\ createAmount' = DefaultAmount
  /\ UNCHANGED <<createOpen, tasksLoading, tasks, uiComplete, co, ld, ledger, nextId>>

\* CreateCatch without the finally block
CreateCatchNoFinally(message) ==
  /\ toast' = message
  /\ cr' = CrIdle
  /\ UNCHANGED <<createOpen, createTask, createAmount, createLoading, tasksLoading,
                 tasks, uiComplete, co, ld, ledger, nextId>>

\* catch and finally of handleCreateSubmit; the toast shows the message of
\* the error caught
CreateCatch(message) ==
  /\ toast' = message
  /\ createLoading' = FALSE
  /\ cr' = CrIdle
  /\ UNCHANGED <<createOpen, createTask, createAmount, tasksLoading, tasks,
                 uiComplete, co, ld, ledger, nextId>>

\* the OK button of the creation dialog, rendered while no creation is in
\* flight: the checks, whose return runs the finally block, then the call of
\* encrypt
CreateSubmit ==
  /\ createOpen
  /\ ~createLoading
  /\ cr.pc = "idle"
  /\ IF CreateRejection(createTask, createAmount) # NoToast
       THEN /\ toast' = CreateRejection(createTask, createAmount)
            /\ createLoading' = FALSE
            /\ UNCHANGED <<createOpen, createTask, createAmount, cr>>
       ELSE /\ toast' = NoToast
            /\ createLoading' = TRUE
            /\ cr' = [pc |-> "encrypt", task |-> createTask, amount |-> createAmount]
            /\ UNCHANGED <<createOpen, createTask, createAmount>>
  /\ UNCHANGED <<tasksLoading, tasks, uiComplete, co, ld, ledger, nextId>>

\* encrypt resolves: pushdrop.create is called
EncryptResolve ==
  /\ cr.pc = "encrypt"
  /\ cr' = [pc |-> "pushdrop.create", task |-> cr.task, amount |-> cr.amount,
            encryptedTask |-> EncryptTask(cr.task)]
  /\ toast' = NoToast
  /\ UNCHANGED <<uiCreate, tasksLoading, tasks, uiComplete, co, ld, ledger, nextId>>

\* encrypt throws
EncryptReject ==
  /\ cr.pc = "encrypt"
  /\ CreateCatch(ToastEncryptError)

\* pushdrop.create resolves: createAction is called
ScriptResolve ==
  /\ cr.pc = "pushdrop.create"
  /\ cr' = [pc |-> "createAction", task |-> cr.task, amount |-> cr.amount,
            bitcoinOutputScript |->
              PushdropCreate(TokenFields(cr.encryptedTask), ProtocolID, KeyID)]
  /\ toast' = NoToast
  /\ UNCHANGED <<uiCreate, tasksLoading, tasks, uiComplete, co, ld, ledger, nextId>>

\* pushdrop.create throws
ScriptReject ==
  /\ cr.pc = "pushdrop.create"
  /\ CreateCatch(ToastScriptError)

\* the ledger commits the action, so that the new output enters the basket,
\* and createAction resolves with a result that may or may not carry the txid:
\* the Task is put first in the collection and the dialog is reset.  Nothing
\* reads the basket between the commit and the handler's resumption, so the
\* two are one step.
CreateResolve(withTxid) ==
  /\ cr.pc = "createAction"
  /\ ntx < MaxTx
  /\ ntx' = ntx + 1
  /\ basket' = Append(basket, [txid |-> TxId(ntx + 1), vout |-> 0,
                               amount |-> cr.amount,
                               outputScript |-> cr.bitcoinOutputScript])
  /\ toast' = ToastCreated
  /\ LET newToDoToken == [txid |-> IF withTxid THEN <<TxId(ntx + 1)>> ELSE <<>>]
     IN tasks' = PrependTask(NewTask(nextId, cr.task, cr.amount,
                                     cr.bitcoinOutputScript, newToDoToken), tasks)
  /\ nextId' = nextId + 1
  /\ createTask' = ""
  /\ createAmount' = DefaultAmount
  /\ createOpen' = FALSE
  /\ createLoading' = FALSE
  /\ cr' = CrIdle
  /\ UNCHANGED <<tasksLoading, uiComplete, co, ld>>

\* CreateReject that submits the action once more before giving up
CreateRejectRetries ==
  /\ cr.pc = "createAction"
  /\ IF "retried" \in DOMAIN cr
       THEN CreateCatch(ToastLedgerError)
       ELSE /\ cr' = [pc |-> "createAction", task |-> cr.task, amount |-> cr.amount,
                      bitcoinOutputScript |-> cr.bitcoinOutputScript, retried |-> TRUE]
            /\ toast' = NoToast
            /\ UNCHANGED <<uiCreate, tasksLoading, tasks, uiComplete, co, ld, ledger, nextId>>

\* the ledger rejects the action: createAction throws
CreateReject ==
  /\ cr.pc = "createAction"
  /\ CreateCatch(ToastLedgerError)

\* -------------------------------------------------------- handleCompleteSubmit
\* CompleteCatch that also takes the selected Task out of the collection
CompleteCatchRemoves(message) ==
  /\ toast' = message
  /\ completeLoading' = FALSE
  /\ co' = CoIdle
  /\ tasks' = IF selectedTask = <<>> THEN tasks ELSE RemoveTask(tasks, selectedTask[1])
  /\ UNCHANGED <<uiCreate, tasksLoading, completeOpen, selectedTask, cr, ld,
                 ledger, nextId>>

\* catch and finally of handleCompleteSubmit; the toast shows the message of
\* the error caught
CompleteCatch(message) ==
  /\ toast' = message
  /\ completeLoading' = FALSE
  /\ co' = CoIdle
  /\ UNCHANGED <<uiCreate, tasksLoading, tasks, completeOpen, selectedTask, cr, ld,
                 ledger, nextId>>

\* the 'Complete Task' button of the completion dialog, rendered while no
\* completion is in flight: the arguments of pushdrop.redeem are evaluated and
\* it is called
CompleteSubmit ==
  /\ completeOpen
  /\ ~completeLoading
  /\ co.pc = "idle"
  /\ IF RedeemArgsThrow(selectedTask)
       THEN CompleteCatch(ToastCompleteError(ToastTypeError))
       ELSE /\ toast' = NoToast
            /\ completeLoading' = TRUE
            /\ co' = [pc |-> "pushdrop.redeem", selectedTask |-> selectedTask]
            /\ UNCHANGED <<uiCreate, tasksLoading, tasks, completeOpen, selectedTask,
                           cr, ld, ledger, nextId>>

\* pushdrop.redeem resolves: the checks of the selected Task, then the call
\* of createAction
RedeemResolve ==
  /\ co.pc = "pushdrop.redeem"
  /\ IF CompleteRejection(co.selectedTask) # NoToast
       THEN CompleteCatch(ToastCompleteError(CompleteRejection(co.selectedTask)))
       ELSE /\ toast' = NoToast
            /\ co' = [pc |-> "createAction", selectedTask |-> co.selectedTask,
                      description |-> CompletionDescription(co.selectedTask)]
            /\ UNCHANGED <<uiCreate, tasksLoading, tasks, uiComplete, cr, ld, ledger, nextId>>

\* pushdrop.redeem throws
RedeemReject ==
  /\ co.pc = "pushdrop.redeem"
  /\ CompleteCatch(ToastCompleteError(ToastRedeemError))

\* the ledger commits the redemption, so that the output leaves the basket,
\* and createAction resolves: the selected Task leaves the collection and the
\* dialog is reset
CompleteResolve ==
  /\ co.pc = "createAction"
  /\ Spendable(basket, co.selectedTask[1].token)
  /\ basket' = Spend(basket, co.selectedTask[1].token)
  /\ toast' = ToastCompleted
  /\ tasks' = RemoveTask(tasks, co.selectedTask[1])
  /\ selectedTask' = <<>>
  /\ completeOpen' = FALSE
  /\ completeLoading' = FALSE
  /\ co' = CoIdle
  /\ UNCHANGED <<uiCreate, tasksLoading, cr, ld, ntx, nextId>>

\* the ledger rejects the redemption: createAction throws
CompleteReject ==
  /\ co.pc = "createAction"
  /\ CompleteCatch(ToastCompleteError(ToastLedgerError))

\* ------------------------------------------------------------- the load effect
\* getTransactionOutputs resolves with the unspent outputs of the basket
QueryResolve ==
  /\ ld.pc = "query"
  /\ ld' = [pc |-> "map", tasksFromBasket |-> basket]
  /\ toast' = NoToast
  /\ UNCHANGED <<uiCreate, tasksLoading, tasks, uiComplete, cr, co, ledger, nextId>>

\* QueryReject that shows the error whatever its code
QueryRejectAlwaysToasts(code) ==
  /\ ld.pc = "query"
  /\ toast' = ToastLoadError
  /\ tasksLoading' = FALSE
  /\ ld' = [pc |-> "done", errorCode |-> code]
  /\ UNCHANGED <<uiCreate, tasks, uiComplete, cr, co, ledger, nextId>>

\* QueryReject without the finally block
QueryRejectNoFinally(code) ==
  /\ ld.pc = "query"
  /\ toast' = IF code # ERR_NO_METANET_IDENTITY THEN ToastLoadError ELSE NoToast
  /\ ld' = [pc |-> "done", errorCode |-> code]
  /\ UNCHANGED <<uiCreate, tasksLoading, tasks, uiComplete, cr, co, ledger, nextId>>

\* getTransactionOutputs throws an error with the given code: the outer catch
\* and the finally block
QueryReject(code) ==
  /\ ld.pc = "query"
  /\ toast' = IF code # ERR_NO_METANET_IDENTITY THEN ToastLoadError ELSE NoToast
  /\ tasksLoading' = FALSE
  /\ ld' = [pc |-> "done", errorCode |-> code]
  /\ UNCHANGED <<uiCreate, tasks, uiComplete, cr, co, ledger, nextId>>

\* LoadFinish that puts the loaded list in front of the collection
LoadFinishAccumulates ==
  /\ ld.pc = "map"
  /\ tasks' = LoadedTasks(ld.tasksFromBasket, nextId) \o tasks
  /\ nextId' = nextId + Len(ld.tasksFromBasket)
  /\ tasksLoading' = FALSE
  /\ ld' = [pc |-> "done", tasksFromBasket |-> ld.tasksFromBasket]
  /\ toast' = NoToast
  /\ UNCHANGED <<uiCreate, uiComplete, cr, co, ledger>>

\* LoadFinish that keeps, in front of the loaded list, the Tasks of the
\* collection whose output the query did not return
LoadFinishMerges ==
  /\ ld.pc = "map"
  /\ tasks' =
       SelectSeq(tasks,
                 LAMBDA x : HasToken(x) /\ ~Spendable(ld.tasksFromBasket, x.token))
         \o LoadedTasks(ld.tasksFromBasket, nextId)
  /\ nextId' = nextId + Len(ld.tasksFromBasket)
  /\ tasksLoading' = FALSE
  /\ ld' = [pc |-> "done", tasksFromBasket |-> ld.tasksFromBasket]
  /\ toast' = NoToast
  /\ UNCHANGED <<uiCreate, uiComplete, cr, co, ledger>>

\* every output is decoded and decrypted, and the reversed list replaces the
\* collection
LoadFinish ==
  /\ ld.pc = "map"
  /\ tasks' = LoadedTasks(ld.tasksFromBasket, nextId)
  /\ nextId' = nextId + Len(ld.tasksFromBasket)
  /\ tasksLoading' = FALSE
  /\ ld' = [pc |-> "done", tasksFromBasket |-> ld.tasksFromBasket]
  /\ toast' = NoToast
  /\ UNCHANGED <<uiCreate, uiComplete, cr, co, ledger>>

\* --------------------------------------------------------------- specification
Next ==
  \/ OpenCreate
  \/ CloseCreate
  \/ \E d \in Descriptions : TypeTask(d)
  \/ \E a \in Amounts : TypeAmount(a)
  \/ \E i \in 1..(MaxTx + MaxInitBasket) : OpenCompleteModal(i)
  \/ CloseComplete
  \/ CreateSubmit
  \/ EncryptResolve
  \/ EncryptReject
  \/ ScriptResolve
  \/ ScriptReject
  \/ \E withTxid \in BOOLEAN : CreateResolve(withTxid)
  \/ CreateReject
  \/ CompleteSubmit
  \/ RedeemResolve
  \/ RedeemReject
  \/ CompleteResolve
  \/ CompleteReject
  \/ QueryResolve
  \/ \E code \in QueryErrorCodes : QueryReject(code)
  \/ LoadFinish

Spec == Init /\ [][Next]_vars

\* the steps of a running handleCreateSubmit
CreateNext ==
  \/ EncryptResolve
  \/ EncryptReject
  \/ ScriptResolve
  \/ ScriptReject
  \/ \E withTxid \in BOOLEAN : CreateResolve(withTxid)
  \/ CreateReject

\* the steps of a running handleCompleteSubmit
CompleteNext ==
  \/ RedeemResolve
  \/ RedeemReject
  \/ CompleteResolve
  \/ CompleteReject

\* a text of n characters
RECURSIVE LongText(_)
LongText(n) ==
  IF n < 10 THEN SubSeq("0123456789", 1, n) ELSE "0123456789" \o LongText(n - 10)

\* the longest text that fits the template within the limit
FitLen == DescriptionLimit - Len(DescriptionPrefix) - Len(DescriptionSuffix)

\* lengths of the descriptions of the tokens in the basket at the mount
TaskLengths == {0, FitLen, FitLen + 1, MaxTaskLen}

\* the component mounts on a basket of one token of this protocol, whose
\* description has one of the lengths above
InitLong ==
  /\ createOpen = FALSE
  /\ createTask = ""
  /\ createAmount = DefaultAmount
  /\ createLoading = FALSE
  /\ tasksLoading = TRUE
  /\ tasks = <<>>
  /\ completeOpen = FALSE
  /\ selectedTask = <<>>
  /\ completeLoading = FALSE
  /\ cr = CrIdle
  /\ co = CoIdle
  /\ ld = [pc |-> "query"]
  /\ \E n \in TaskLengths :
       basket = <<OldOutput(1, PushdropCreate(TokenFields(EncryptTask(LongText(n))),
                                              ProtocolID, KeyID))>>
  /\ ntx = 0
  /\ nextId = 1
  /\ toast = NoToast

SpecLong == InitLong /\ [][Next]_vars

\* the steps of the load effect
LoadNext ==
  \/ QueryResolve
  \/ \E code \in QueryErrorCodes : QueryReject(code)
  \/ LoadFinish

\* the promises the load effect awaits settle, and the event loop then runs
\* its continuation
SpecLive == Spec /\ WF_vars(LoadNext)

\* ------------------------------------------- the operations without the page
\* The three operations as plain functions of the component: a caller may
\* start a creation, a completion of any entry of the collection, or another
\* run of the load at any time, whatever else is in flight.  Nothing in the
\* handlers themselves keeps two calls apart; only the rendering of the page
\* does.  Here co holds one frame per running completion, and the ledger's
\* commit of an action is a step of its own, before the handler resumes.
Completions == 1..MaxCompletions

\* the amounts a caller submits
EngineAmounts == {DefaultAmount}

\* the baskets of earlier sessions: tokens 'Buy milk' of this protocol and
\* outputs whose script is no pushdrop script
EngineScripts ==
  { PushdropCreate(TokenFields(EncryptTask("Buy milk")), ProtocolID, KeyID),
    [pushdrop |-> FALSE, fields |-> <<>>, protocolID |-> "", keyID |-> ""] }

EngineBaskets ==
  UNION { { [i \in 1..n |-> OldOutput(i, f[i])] : f \in [1..n -> EngineScripts] }
          : n \in 0..MaxInitBasket }

InitEngine ==
  /\ createOpen = FALSE
  /\ createTask = ""
  /\ createAmount = DefaultAmount
  /\ createLoading = FALSE
  /\ tasksLoading = TRUE
  /\ tasks = <<>>
  /\ completeOpen = FALSE
  /\ selectedTask = <<>>
  /\ completeLoading = FALSE
  /\ cr = CrIdle
  /\ co = [k \in Completions |-> CoIdle]
  /\ ld = [pc |-> "query"]
  /\ basket \in EngineBaskets
  /\ ntx = 0
  /\ nextId = 1
  /\ toast = NoToast

\* the fields are set and handleCreateSubmit is called; no dialog is opened
CallCreate(d, a) ==
  /\ cr.pc = "idle"
  /\ createTask' = d
  /\ createAmount' = a
  /\ IF CreateRejection(d, a) # NoToast
       THEN /\ toast' = CreateRejection(d, a)
            /\ createLoading' = FALSE
            /\ UNCHANGED cr
       ELSE /\ toast' = NoToast
            /\ createLoading' = TRUE
            /\ cr' = [pc |-> "encrypt", task |-> d, amount |-> a]
  /\ UNCHANGED <<createOpen, tasksLoading, tasks, uiComplete, co, ld, ledger, nextId>>

\* the ledger commits the creating action: the new output enters the basket
LedgerCreate(withTxid) ==
  /\ cr.pc = "createAction"
  /\ ntx < MaxTx
  /\ ntx' = ntx + 1
  /\ basket' = Append(basket, [txid |-> TxId(ntx + 1), vout |-> 0,
                               amount |-> cr.amount,
                               outputScript |-> cr.bitcoinOutputScript])
  /\ cr' = [pc |-> "resume", task |-> cr.task, amount |-> cr.amount,
            bitcoinOutputScript |-> cr.bitcoinOutputScript,
            newToDoToken |-> [txid |-> IF withTxid THEN <<TxId(ntx + 1)>> ELSE <<>>]]
  /\ toast' = NoToast
  /\ UNCHANGED <<uiCreate, tasksLoading, tasks, uiComplete, co, ld, nextId>>

\* createAction resolves: the Task is put first and the dialog is reset
CreateResume ==
  /\ cr.pc = "resume"
  /\ toast' = ToastCreated
  /\ tasks' = PrependTask(NewTask(nextId, cr.task, cr.amount,
                                  cr.bitcoinOutputScript, cr.newToDoToken), tasks)
  /\ nextId' = nextId + 1
  /\ createTask' = ""
  /\ createAmount' = DefaultAmount
  /\ createOpen' = FALSE
  /\ createLoading' = FALSE
  /\ cr' = CrIdle
  /\ UNCHANGED <<tasksLoading, uiComplete, co, ld, ledger>>

\* CompleteCatchOf that also takes the Task of the call out of the collection
CompleteCatchOfRemoves(k, message) ==
  /\ toast' = message
  /\ completeLoading' = FALSE
  /\ tasks' = IF co[k].pc = "idle" THEN tasks ELSE RemoveTask(tasks, co[k].selectedTask[1])
  /\ co' = [co EXCEPT ![k] = CoIdle]
  /\ UNCHANGED <<uiCreate, tasksLoading, completeOpen, cr, ld, ledger, nextId>>

\* catch and finally of the k-th running handleCompleteSubmit
CompleteCatchOf(k, message) ==
  /\ toast' = message
  /\ completeLoading' = FALSE
  /\ co' = [co EXCEPT ![k] = CoIdle]
  /\ UNCHANGED <<uiCreate, tasksLoading, tasks, completeOpen, cr, ld, ledger, nextId>>

\* tasks[i] is selected and handleCompleteSubmit is called; no dialog is
\* opened, and the frames are taken in order
CallComplete(k, i) ==
  /\ co[k].pc = "idle"
  /\ \A j \in 1..(k - 1) : co[j].pc # "idle"
  /\ i \in 1..Len(tasks)
  /\ selectedTask' = <<tasks[i]>>
  /\ IF RedeemArgsThrow(<<tasks[i]>>)
       THEN /\ toast' = ToastCompleteError(ToastTypeError)
            /\ completeLoading' = FALSE
            /\ co' = co
       ELSE /\ toast' = NoToast
            /\ completeLoading' = TRUE
            /\ co' = [co EXCEPT ![k] = [pc |-> "pushdrop.redeem",
                                        selectedTask |-> <<tasks[i]>>]]
  /\ UNCHANGED <<uiCreate, tasksLoading, tasks, completeOpen, cr, ld, ledger, nextId>>

\* pushdrop.redeem resolves in the k-th completion
RedeemResolveOf(k) ==
  /\ co[k].pc = "pushdrop.redeem"
  /\ IF CompleteRejection(co[k].selectedTask) # NoToast
       THEN /\ CompleteCatchOf(k, ToastCompleteError(CompleteRejection(co[k].selectedTask)))
            /\ UNCHANGED selectedTask
       ELSE /\ toast' = NoToast
            /\ co' = [co EXCEPT ![k] =
                        [pc |-> "createAction", selectedTask |-> co[k].selectedTask,
                         description |-> CompletionDescription(co[k].selectedTask)]]
            /\ UNCHANGED <<uiCreate, tasksLoading, tasks, uiComplete, cr, ld, ledger, nextId>>

\* pushdrop.redeem throws in the k-th completion
RedeemRejectOf(k) ==
  /\ co[k].pc = "pushdrop.redeem"
  /\ CompleteCatchOf(k, ToastCompleteError(ToastRedeemError))
  /\ UNCHANGED selectedTask

\* the ledger commits the redeeming action of the k-th completion: the output
\* must be unspent, and leaves the basket
LedgerRedeem(k) ==
  /\ co[k].pc = "createAction"
  /\ Spendable(basket, co[k].selectedTask[1].token)
  /\ basket' = Spend(basket, co[k].selectedTask[1].token)
  /\ co' = [co EXCEPT ![k] = [pc |-> "resume", selectedTask |-> co[k].selectedTask]]
  /\ toast' = NoToast
  /\ UNCHANGED <<uiCreate, tasksLoading, tasks, uiComplete, cr, ld, ntx, nextId>>

\* createAction resolves in the k-th completion: its Task leaves the
\* collection and the dialog is reset
CompleteResume(k) ==
  /\ co[k].pc = "resume"
  /\ toast' = ToastCompleted
  /\ tasks' = RemoveTask(tasks, co[k].selectedTask[1])
  /\ selectedTask' = <<>>
  /\ completeOpen' = FALSE
  /\ completeLoading' = FALSE
  /\ co' = [co EXCEPT ![k] = CoIdle]
  /\ UNCHANGED <<uiCreate, tasksLoading, cr, ld, ledger, nextId>>

\* the ledger rejects the redeeming action of the k-th completion, as it does
\* when the output is spent: createAction throws
CompleteRejectOf(k) ==
  /\ co[k].pc = "createAction"
  /\ CompleteCatchOf(k, ToastCompleteError(ToastLedgerError))
  /\ UNCHANGED selectedTask

\* the load effect runs again
CallList ==
  /\ ld.pc = "done"
  /\ nextId <= MaxId
  /\ ld' = [pc |-> "query"]
  /\ toast' = NoToast
  /\ UNCHANGED <<uiCreate, tasksLoading, tasks, uiComplete, cr, co, ledger, nextId>>

NextEngine ==
  \/ \E d \in Descriptions, a \in EngineAmounts : CallCreate(d, a)
  \/ EncryptResolve
  \/ EncryptReject
  \/ ScriptResolve
  \/ ScriptReject
  \/ \E withTxid \in BOOLEAN : LedgerCreate(withTxid)
  \/ CreateResume
  \/ CreateReject
  \/ \E k \in Completions, i \in 1..(MaxTx + MaxInitBasket) : CallComplete(k, i)
  \/ \E k \in Completions : RedeemResolveOf(k)
  \/ \E k \in Completions : RedeemRejectOf(k)
  \/ \E k \in Completions : LedgerRedeem(k)
  \/ \E k \in Completions : CompleteResume(k)
  \/ \E k \in Completions : CompleteRejectOf(k)
  \/ CallList
  \/ QueryResolve
  \/ \E code \in QueryErrorCodes : QueryReject(code)
  \/ LoadFinish

SpecEngine == InitEngine /\ [][NextEngine]_vars

\* ------------------------------------------------------------ verification
\* what an entry of the collection carries of the output behind it: a Task
\* holds it in sats and token, a placeholder holds the output's own properties
Carried(x) ==
  IF HasToken(x)
    THEN [amount |-> x.sats, txid |-> x.token.txid, index |-> x.token.outputIndex,
          script |-> x.token.lockingScript]
    ELSE [amount |-> x.amount, txid |-> x.txid, index |-> x.vout,
          script |-> x.outputScript]

\* the same four properties of an output of the basket
OutputData(o) ==
  [amount |-> o.amount, txid |-> o.txid, index |-> o.vout, script |-> o.outputScript]

\* the step that ends a load by replacing the collection
LoadStep == ld.pc = "map" /\ ld'.pc = "done"

\* C1: a successful completion of t removes from the collection exactly the
\* entry that is t itself: the length drops by one, t is gone, and every
\* other entry is unchanged and keeps its order, also when another entry has
\* the same description and amount.
C1_CompleteRemovesSelected ==
  [][toast' = ToastCompleted =>
       \E i \in 1..Len(tasks) :
         /\ tasks[i].id = co.selectedTask[1].id
         /\ Len(tasks') = Len(tasks) - 1
         /\ \A j \in 1..Len(tasks') :
              tasks'[j] = IF j < i THEN tasks[j] ELSE tasks[j + 1]
         /\ \A j \in 1..Len(tasks') : tasks'[j].id # tasks[i].id]_vars

\* a completion has just succeeded and two Tasks are left
C1_Witness == toast = ToastCompleted /\ Len(tasks) = 2

\* the input of a creation is acceptable
ValidInput(task, amount) ==
  task # "" /\ amount # 0 /\ amount # NaN /\ amount >= 500

CreateRejectionToasts == {ToastNoTask, ToastNoAmount, ToastLowAmount}

\* C2: a creation is rejected exactly when the description is empty or the
\* amount is 0, NaN or below 500; a rejection calls no collaborator and
\* changes neither the collection nor the ledger, and a collaborator is only
\* ever called for an acceptable input.
C2_CreateRejectsInvalid ==
  /\ [][cr.pc = "idle" =>
          /\ cr'.pc # "idle" =>
               /\ ValidInput(createTask, createAmount)
               /\ cr' = [pc |-> "encrypt", task |-> createTask, amount |-> createAmount]
          /\ toast' \in CreateRejectionToasts =>
               /\ ~ValidInput(createTask, createAmount)
               /\ cr' = cr
               /\ UNCHANGED <<tasks, basket, ntx, createTask, createAmount,
                              createLoading>>]_vars
  /\ [](cr.pc # "idle" => ValidInput(cr.task, cr.amount))

\* an amount of 499 has just been rejected
C2_Witness == toast = ToastLowAmount /\ createAmount = 499 /\ cr.pc = "idle"

\* C3: a successful creation puts one new Task first in the collection, with
\* the description and amount submitted, the locking script just built,
\* output index 0 and the txid of the ledger's result ('' when the result
\* carries none); the Tasks already there follow it unchanged, in order.
C3_CreatePrepends ==
  [][toast' = ToastCreated =>
       /\ Len(tasks') = Len(tasks) + 1
       /\ tasks'[1].task = cr.task
       /\ tasks'[1].sats = cr.amount
       /\ tasks'[1].token.lockingScript = cr.bitcoinOutputScript
       /\ tasks'[1].token.outputIndex = 0
       /\ tasks'[1].token.txid \in {"", basket'[Len(basket')].txid}
       /\ basket'[Len(basket')].outputScript = cr.bitcoinOutputScript
       /\ \A j \in 1..Len(tasks) : tasks'[j + 1] = tasks[j] /\ tasks[j].id # tasks'[1].id]_vars

\* a creation has just succeeded in a collection that held two Tasks
C3_Witness == toast = ToastCreated /\ Len(tasks) = 3

CreateFailureToasts == {ToastEncryptError, ToastScriptError, ToastLedgerError}

\* C4: when encrypt, pushdrop.create or createAction fails, the collection
\* is as it was and the description and amount fields are not reset.
C4_CreateFailureKeepsState ==
  [][(cr.pc # "idle" /\ cr'.pc = "idle" /\ toast' # ToastCreated) =>
       /\ toast' \in CreateFailureToasts
       /\ UNCHANGED <<tasks, createTask, createAmount, basket>>]_vars

\* the ledger has just rejected a creation and the fields still hold the input
C4_Witness == toast = ToastLedgerError /\ createTask = "Buy milk" /\ createAmount = 500

\* the Task selected can be redeemed: it is there, with a token, a txid that
\* is not empty and an output index
CompletableTask(sel) ==
  /\ sel # <<>>
  /\ HasToken(sel[1])
  /\ sel[1].token.txid # ""
  /\ "outputIndex" \in DOMAIN sel[1].token

CompleteErrorToasts ==
  {ToastCompleteError(m) :
     m \in {ErrNoTask, ErrIncomplete, ToastLedgerError, ToastRedeemError, ToastTypeError}}

\* C5: a completion of no Task, or of a Task whose txid is empty or whose
\* output index is undefined, ends with an error, submits no action to the
\* ledger and leaves the collection and the ledger as they were.
C5_IncompleteTaskRejected ==
  /\ [](co.pc = "createAction" => CompletableTask(co.selectedTask))
  /\ [][(co.pc = "pushdrop.redeem" /\ ~CompletableTask(co.selectedTask) /\ co' # co) =>
          /\ co'.pc = "idle"
          /\ toast' \in CompleteErrorToasts
          /\ UNCHANGED <<tasks, basket, ntx>>]_vars

\* a completion has just been rejected for incomplete task data
C5_Witness == toast = ToastCompleteError(ErrIncomplete) /\ co.pc = "idle"

\* C6: pushdrop.redeem is only called for a Task that passes the checks of
\* the completion (a Task, with a txid that is not empty and an output index).
C6_RedeemAfterValidation ==
  co.pc = "pushdrop.redeem" => CompletableTask(co.selectedTask)

\* C7: when pushdrop.redeem fails or the ledger rejects the redemption, an
\* error is shown and the collection is as it was, the selected Task still
\* at its position.
C7_CompleteFailureKeepsTasks ==
  [][(\/ co.pc = "pushdrop.redeem" /\ co'.pc = "idle"
      \/ co.pc = "createAction" /\ co'.pc = "idle" /\ basket' = basket) =>
       /\ toast' \in CompleteErrorToasts
       /\ tasks' = tasks
       /\ basket' = basket
       /\ co.pc = "createAction" =>
            \E i \in 1..Len(tasks') : tasks'[i] = co.selectedTask[1]]_vars

\* the ledger has just rejected a redemption
C7_Witness == toast = ToastCompleteError(ToastLedgerError) /\ Len(tasks) >= 2

\* C8: every entry of the collection has a token with a locking script, a
\* txid that is not empty and an output index.
C8_TokensPopulated ==
  \A i \in 1..Len(tasks) :
    /\ HasToken(tasks[i])
    /\ "lockingScript" \in DOMAIN tasks[i].token
    /\ tasks[i].token.txid # ""
    /\ "outputIndex" \in DOMAIN tasks[i].token

\* C9: the load replaces the collection with the outputs of the basket query
\* in reverse order, each entry carrying the amount, txid, output index and
\* locking script of its own output.
C9_LoadReverses ==
  /\ [][(ld.pc = "query" /\ ld'.pc = "map") => ld'.tasksFromBasket = basket]_vars
  /\ [][LoadStep =>
          LET n == Len(ld.tasksFromBasket)
          IN /\ Len(tasks') = n
             /\ \A i \in 1..n :
                  Carried(tasks'[i]) = OutputData(ld.tasksFromBasket[n + 1 - i])]_vars

\* a load of two outputs has ended: the newer output comes first
C9_Witness ==
  /\ ld.pc = "done"
  /\ Len(tasks) = 2
  /\ Carried(tasks[1]).txid = "old2"
  /\ Carried(tasks[2]).txid = "old1"

\* an output of this protocol that this user can decrypt
Decryptable(o) ==
  /\ o.outputScript.pushdrop
  /\ Len(o.outputScript.fields) >= 2
  /\ o.outputScript.fields[2].protocolID = ProtocolID
  /\ o.outputScript.fields[2].keyID = KeyID

\* C10: a load of N outputs that decrypt and k that do not yields N + k
\* entries, each at the place of its own output: a Task with the decrypted
\* description for the former, a placeholder with the sentinel description
\* for the latter.
C10_LoadKeepsFailedItems ==
  [][LoadStep =>
       LET n == Len(ld.tasksFromBasket)
       IN /\ Len(tasks') = n
          /\ ~tasksLoading'
          /\ \A i \in 1..n :
               LET o == ld.tasksFromBasket[n + 1 - i]
               IN /\ Carried(tasks'[i]).txid = o.txid
                  /\ Carried(tasks'[i]).index = o.vout
                  /\ tasks'[i].task = IF Decryptable(o)
                                        THEN o.outputScript.fields[2].sealed
                                        ELSE UnableToDecrypt]_vars

\* a load of one output that decrypts and one that does not has ended
C10_Witness ==
  /\ ld.pc = "done"
  /\ Len(tasks) = 2
  /\ tasks[1].task = UnableToDecrypt
  /\ tasks[2].task = "Pay rent"
  /\ Carried(tasks[2]).txid = "old1"

\* C11: the locking script of a Task just created decodes to two fields, the
\* protocol address and the ciphertext of the description, and the load's
\* path over the output the ledger keeps (decode, field of index 1, decrypt
\* under 'todo list' and '1') gives back exactly the description submitted.
C11_CreateListRoundTrip ==
  [][toast' = ToastCreated =>
       LET o == basket'[Len(basket')]
           decoded == PushdropDecode(tasks'[1].token.lockingScript)
       IN /\ o.outputScript = tasks'[1].token.lockingScript
          /\ decoded # <<>>
          /\ Len(decoded[1]) = 2
          /\ decoded[1][1] = ToHex(TODO_PROTO_ADDR)
          /\ decoded[1][2] = ToHex(EncryptTask(cr.task))
          /\ HasToken(DecodeTask(0, o))
          /\ DecodeTask(0, o).task = cr.task
          /\ DecodeTask(0, o).sats = cr.amount]_vars

\* a Task of 500 satoshis has just been created and its output is in the basket
C11_Witness ==
  /\ toast = ToastCreated
  /\ tasks[1].task = "Buy milk"
  /\ tasks[1].sats = 500
  /\ DecodeTask(0, basket[Len(basket)]).task = "Buy milk"

\* C12: whatever the outcome of the load (all outputs decoded, some not, the
\* query failing with or without ERR_NO_METANET_IDENTITY), tasksLoading
\* becomes false and is never true again.
C12_LoadingEnds == <>[](~tasksLoading)

\* the load has ended by a failure of the query, and loading is over
C12_Witness == ld.pc = "done" /\ "errorCode" \in DOMAIN ld /\ ~tasksLoading /\ createOpen

\* C13: when the basket query fails, an error is shown exactly when the code
\* of the failure is not ERR_NO_METANET_IDENTITY; in both cases the
\* collection and the ledger are as they were and the loading has ended.
C13_QueryFailure ==
  [][(ld.pc = "query" /\ ld'.pc = "done") =>
       /\ toast' \in {NoToast, ToastLoadError}
       /\ toast' = ToastLoadError <=> ld'.errorCode # ERR_NO_METANET_IDENTITY
       /\ tasks' = tasks
       /\ basket' = basket
       /\ ~tasksLoading']_vars

\* the query has just failed for want of an identity: nothing is shown
C13_Witness ==
  /\ ld.pc = "done"
  /\ "errorCode" \in DOMAIN ld
  /\ ld.errorCode = ERR_NO_METANET_IDENTITY
  /\ toast = NoToast
  /\ tasks = <<>>
  /\ ~createOpen

\* C18: a completion submitted for a placeholder (an entry whose description
\* is the sentinel) is not blocked: it goes on to pushdrop.redeem like the
\* completion of any other Task.
C18_PlaceholderCompletes ==
  [][(/\ co.pc = "idle"
      /\ completeOpen
      /\ selectedTask # <<>>
      /\ selectedTask[1].task = UnableToDecrypt
      /\ (co' # co \/ toast' \in CompleteErrorToasts)) =>
       co'.pc = "pushdrop.redeem"]_vars

\* the positions a running creation passes through, in order
CreateOrder(pc) ==
  CASE pc = "idle" -> 0
    [] pc = "encrypt" -> 1
    [] pc = "pushdrop.create" -> 2
    [] pc = "createAction" -> 3

\* the positions a running completion passes through, in order
CompleteOrder(pc) ==
  CASE pc = "idle" -> 0
    [] pc = "pushdrop.redeem" -> 1
    [] pc = "createAction" -> 2

\* C19: nothing is retried.  A creation or a completion runs from the user's
\* submission forward and calls createAction at most once; when that call
\* returns, with a result or an error, the handler ends.  A successful
\* creation adds exactly one output to the basket, a successful completion
\* spends exactly the output of the selected Task, and nothing else changes
\* the ledger; a new ledger action takes a new submission by the user.
C19_NoRetry ==
  /\ [][cr' # cr =>
          /\ cr.pc = "idle" => (cr'.pc = "encrypt" /\ createOpen /\ ~createLoading)
          /\ cr.pc # "idle" =>
               (cr'.pc = "idle" \/ CreateOrder(cr'.pc) = CreateOrder(cr.pc) + 1)
          /\ cr.pc = "createAction" => cr'.pc = "idle"]_vars
  /\ [][co' # co =>
          /\ co.pc = "idle" => (co'.pc = "pushdrop.redeem" /\ completeOpen /\ ~completeLoading)
          /\ co.pc # "idle" =>
               (co'.pc = "idle" \/ CompleteOrder(co'.pc) = CompleteOrder(co.pc) + 1)
          /\ co.pc = "createAction" => co'.pc = "idle"]_vars
  /\ [][cr.pc = "createAction" /\ cr'.pc = "createAction" => cr' = cr]_vars
  /\ [][co.pc = "createAction" /\ co'.pc = "createAction" => co' = co]_vars
  /\ [][<<basket, ntx>>' # <<basket, ntx>> =>
          \/ /\ toast' = ToastCreated
             /\ cr.pc = "createAction"
             /\ ntx' = ntx + 1
             /\ Len(basket') = Len(basket) + 1
             /\ \A i \in 1..Len(basket) : basket'[i] = basket[i]
             /\ basket'[Len(basket')].amount = cr.amount
          \/ /\ toast' = ToastCompleted
             /\ co.pc = "createAction"
             /\ ntx' = ntx
             /\ Len(basket') = Len(basket) - 1
             /\ \A i \in 1..Len(basket) :
                  (\E j \in 1..Len(basket') : basket'[j] = basket[i])
                    <=> ~(/\ basket[i].txid = co.selectedTask[1].token.txid
                          /\ basket[i].vout = co.selectedTask[1].token.outputIndex)]_vars

\* the ledger has just rejected a creation: no transaction was committed, the
\* handler has ended and the dialog waits for the user
C19_Witness ==
  /\ toast = ToastLedgerError
  /\ cr.pc = "idle"
  /\ ntx = 0
  /\ createOpen
  /\ ~createLoading

\* C20: the description of a completing action is never longer than 128
\* characters: it is the whole text 'Complete a TODO task: "<description>"'
\* when that has at most 128 characters, and its first 128 characters when
\* it has more.
C20_DescriptionCut ==
  co.pc = "createAction" =>
    LET full == DescriptionPrefix \o co.selectedTask[1].task \o DescriptionSuffix
    IN /\ Len(co.description) <= 128
       /\ Len(full) <= 128 => co.description = full
       /\ Len(full) > 128 =>
            /\ Len(co.description) = 128
            /\ full = co.description \o SubSeq(full, 129, Len(full))

\* the completion of a Task with the longest description has reached
\* the ledger with a description of 128
C20_Witness ==
  /\ co.pc = "createAction"
  /\ Len(co.selectedTask[1].task) = MaxTaskLen
  /\ Len(co.description) = 128

\* C14: when completions run side by side, the ledger accepts the redemption
\* of an output once: the call it accepts removes from the collection the
\* one entry that is its Task and nothing else, and a call it rejects shows
\* an error and leaves the collection and the ledger as they were.
C14_DoubleCompletion ==
  /\ [][\A k \in Completions :
          (co[k].pc = "createAction" /\ co'[k].pc = "idle") =>
            /\ tasks' = tasks
            /\ basket' = basket
            /\ toast' = ToastCompleteError(ToastLedgerError)]_vars
  /\ [][\A k \in Completions :
          (co[k].pc = "createAction" /\ co'[k].pc = "resume") =>
            /\ Spendable(basket, co[k].selectedTask[1].token)
            /\ ~Spendable(basket', co[k].selectedTask[1].token)
            /\ Len(basket') = Len(basket) - 1]_vars
  /\ [](\A j, k \in Completions :
          (j # k /\ co[j].pc = "resume" /\ co[k].pc = "resume") =>
            ~(/\ co[j].selectedTask[1].token.txid = co[k].selectedTask[1].token.txid
              /\ co[j].selectedTask[1].token.outputIndex
                   = co[k].selectedTask[1].token.outputIndex))
  /\ [][\A k \in Completions :
          (co[k].pc = "resume" /\ co'[k].pc = "idle") =>
            /\ tasks' = SelectSeq(tasks, LAMBDA x : x.id # co[k].selectedTask[1].id)
            /\ Len(tasks) - Len(tasks') <= 1
            /\ toast' = ToastCompleted]_vars

\* two completions of the only Task of the collection ran side by side: the
\* ledger has accepted the first, which is still to resume, and has just
\* rejected the second, and the Task is still in the collection
C14_Witness ==
  /\ co[1].pc = "resume"
  /\ co[2].pc = "idle"
  /\ toast = ToastCompleteError(ToastLedgerError)
  /\ ld.pc = "done"
  /\ ntx = 0
  /\ nextId = 2
  /\ basket = <<>>
  /\ tasks = co[1].selectedTask

C16_CreateListComplete ==
  /\ [][(cr.pc = "resume" /\ cr'.pc = "idle" /\ tasks = <<>>) =>
          /\ Len(tasks') = 1
          /\ tasks'[1].task = cr.task
          /\ tasks'[1].sats = cr.amount
          /\ tasks'[1].token.outputIndex = 0]_vars
  /\ [][(/\ LoadStep
         /\ Len(ld.tasksFromBasket) = 1
         /\ ld.tasksFromBasket[1].txid = TxId(1)) =>
          /\ Len(tasks') = 1
          /\ HasToken(tasks'[1])
          /\ tasks'[1].token.txid = TxId(1)
          /\ tasks'[1].token.outputIndex = 0
          /\ tasks'[1].sats = ld.tasksFromBasket[1].amount
          /\ \A j \in 1..Len(tasks) :
               (HasToken(tasks[j]) /\ tasks[j].token.txid \in {"", TxId(1)}) =>
                 /\ tasks'[1].task = tasks[j].task
                 /\ tasks'[1].sats = tasks[j].sats]_vars
  /\ [][\A k \in Completions :
          (/\ co[k].pc = "resume"
           /\ co'[k].pc = "idle"
           /\ Len(tasks) = 1
           /\ tasks[1].id = co[k].selectedTask[1].id) =>
            tasks' = <<>>]_vars

\* on an empty basket a Task was created, a load then returned its output,
\* and the completion of the loaded Task has just succeeded: the collection
\* and the basket are empty
C16_Witness ==
  /\ toast = ToastCompleted
  /\ tasks = <<>>
  /\ basket = <<>>
  /\ ntx = 1
  /\ nextId = 3
  /\ ld.pc = "done"
  /\ "tasksFromBasket" \in DOMAIN ld
  /\ Len(ld.tasksFromBasket) = 1

\* C17: a load replaces the collection by what its query returned: every
\* entry afterwards comes from an output of the query, and no entry that was
\* there before is kept.  So a Task that a creation inserted after the query
\* was answered, and whose output the query did not return, is dropped.
C17_ListDropsOptimistic ==
  [][LoadStep =>
       /\ \A i \in 1..Len(tasks') :
            \E n \in 1..Len(ld.tasksFromBasket) :
              Carried(tasks'[i]) = OutputData(ld.tasksFromBasket[n])
       /\ \A i \in 1..Len(tasks'), j \in 1..Len(tasks) : tasks'[i].id # tasks[j].id]_vars

\* the query was answered, then a creation committed its output and inserted
\* its Task, then the load replaced the collection: the output is in the
\* basket and no entry of the collection stands for it
C17_Witness ==
  /\ ld.pc = "done"
  /\ "tasksFromBasket" \in DOMAIN ld
  /\ cr.pc = "idle"
  /\ ntx = 1
  /\ nextId = Len(ld.tasksFromBasket) + 2
  /\ basket = Append(ld.tasksFromBasket, basket[Len(basket)])
  /\ basket[Len(basket)].txid = TxId(1)
  /\ Len(tasks) = Len(ld.tasksFromBasket)
  /\ \A i \in 1..Len(tasks) :
       \E n \in 1..Len(ld.tasksFromBasket) :
         Carried(tasks[i]) = OutputData(ld.tasksFromBasket[n])

\* the output behind an entry is held by a completion that the ledger has
\* accepted and that is still to resume
BeingCompleted(x) ==
  \E k \in Completions :
    /\ co[k].pc = "resume"
    /\ co[k].selectedTask[1].token.txid = Carried(x).txid
    /\ co[k].selectedTask[1].token.outputIndex = Carried(x).index

C22_LoadingFlagsReset ==
  /\ [](cr.pc = "idle" => ~createLoading)
  /\ [](co.pc = "idle" => ~completeLoading)
  /\ [](cr.pc # "idle" => ENABLED CreateNext)
  /\ [](co.pc # "idle" => ENABLED CompleteNext)
  /\ [][toast' \in (CreateRejectionToasts \cup CreateFailureToasts \cup {ToastCreated}) =>
          cr'.pc = "idle" /\ ~createLoading']_vars
  /\ [][toast' \in (CompleteErrorToasts \cup {ToastCompleted}) =>
          co'.pc = "idle" /\ ~completeLoading']_vars

\* pushdrop.redeem has just failed: the completion has ended, its flag is
\* false and its dialog is still open
C22_Witness ==
  /\ toast = ToastCompleteError(ToastRedeemError)
  /\ co.pc = "idle"
  /\ ~completeLoading
  /\ completeOpen

====
